---- MODULE Spec2Model ----
(***************************************************************************)
(* Content indexing and retrieval layer of the blog (src/src/lib/mdx.ts),  *)
(* its search endpoint (src/src/app/api/posts/route.ts), the blog listing  *)
(* page (src/unnamed/part_007) with its Pagination                         *)
(* (src/src/components/BlogCard.tsx), the heading extractor                *)
(* (src/unnamed/part_006), the post page (src/unnamed/part_008) and the    *)
(* search modal (src/src/components/AnimatedSection.tsx).                  *)
(*                                                                         *)
(* Encoding conventions                                                    *)
(*  - a JavaScript string is a sequence of one-character strings;          *)
(*  - a file name / slug is a sequence of name segments, ".mdx" being one  *)
(*    segment, so that filename.replace('.mdx','') is computed;            *)
(*  - an optional value (undefined / null) is <<>>, a present value v is   *)
(*    <<v>>;                                                               *)
(*  - a JavaScript number that may be NaN is [nan |-> BOOLEAN, val |-> Int]*)
(*  - Date.getTime() is counted in days since 1970-01-01 (every date-only  *)
(*    string parses to a multiple of 86400000 ms).                         *)
(***************************************************************************)
EXTENDS Integers, Sequences, FiniteSets, TLC

VARIABLES dir, resp,
          heap, calls, sortOf,
          modal

\* the state of the getBlogPosts() calls in flight
callVars == <<heap, calls, sortOf>>

\* the state of the search modal in the browser
modalVars == <<modal>>

vars == <<dir, resp, callVars, modalVars>>

----------------------------------------------------------------------------
(* Bounds *)

\* largest number of files in a hand-written content directory
MaxFiles == 3

\* largest number of files in a generated (bulk) content directory
MaxCount == 13

\* largest number of top-level blocks in a markdown body
MaxBlocks == 3

\* largest number of getBlogPosts() calls in flight at the same time
MaxCalls == 2

\* largest number of query edits in one session of the search modal
MaxEdits == 3

----------------------------------------------------------------------------
(* Generic helpers *)

None == <<>>

Some(v) == <<v>>

Range(s) == {s[i] : i \in 1..Len(s)}

Min(a, b) == IF a < b THEN a ELSE b

Max(a, b) == IF a > b THEN a ELSE b

NaN == [nan |-> TRUE, val |-> 0]

Num(n) == [nan |-> FALSE, val |-> n]

----------------------------------------------------------------------------
(* String.prototype.toLowerCase and String.prototype.includes *)

UpperChars == <<"A","B","C","D","E","F","G","H","I","J","K","L","M",
                "N","O","P","Q","R","S","T","U","V","W","X","Y","Z">>

LowerChars == <<"a","b","c","d","e","f","g","h","i","j","k","l","m",
                "n","o","p","q","r","s","t","u","v","w","x","y","z">>

toLowerCaseChar(c) ==
    IF \E i \in 1..Len(UpperChars) : UpperChars[i] = c
    THEN LowerChars[CHOOSE i \in 1..Len(UpperChars) : UpperChars[i] = c]
    ELSE c

toLowerCase(s) == [i \in 1..Len(s) |-> toLowerCaseChar(s[i])]

\* s.includes(q): q occurs in s as a contiguous substring
includes(s, q) ==
    \E i \in 0..(Len(s) - Len(q)) : SubSeq(s, i + 1, i + Len(q)) = q

----------------------------------------------------------------------------
(* new Date(s).getTime() for date-only strings "YYYY-MM-DD" = <<y, m, d>> *)

IsLeap(y) == (y % 4 = 0 /\ y % 100 # 0) \/ y % 400 = 0

DaysInMonth(y, m) ==
    IF m = 2 THEN (IF IsLeap(y) THEN 29 ELSE 28)
    ELSE IF m \in {4, 6, 9, 11} THEN 30 ELSE 31

LeapsThrough(y) == (y \div 4) - (y \div 100) + (y \div 400)

RECURSIVE DaysBeforeMonth(_, _)
DaysBeforeMonth(y, m) ==
    IF m <= 1 THEN 0 ELSE DaysBeforeMonth(y, m - 1) + DaysInMonth(y, m - 1)

IsValidDate(s) ==
    /\ Len(s) = 3
    /\ s[2] \in 1..12
    /\ s[3] \in 1..DaysInMonth(s[1], s[2])

getTime(s) ==
    IF IsValidDate(s)
    THEN Num(365 * (s[1] - 1970) + (LeapsThrough(s[1] - 1) - LeapsThrough(1969))
             + DaysBeforeMonth(s[1], s[2]) + (s[3] - 1))
    ELSE NaN

----------------------------------------------------------------------------
(* Content documents: what fs.readFileSync + matter(fileContents) yield.    *)
(* kind = "ok": front matter parses, the fields are data.* and content;     *)
(* kind = "badFrontMatter": matter() throws; kind = "unreadable":           *)
(* readFileSync throws (e.g. the entry is a sub-directory).                 *)

Doc(kind, title, date, description, content, tags, author, readingTime, image) ==
    [kind |-> kind, title |-> title, date |-> date, description |-> description,
     content |-> content, tags |-> tags, author |-> author,
     readingTime |-> readingTime, image |-> image]

DocEfCore ==
    Doc("ok", <<"E","F"," ","C","o","r","e">>, <<2025, 6, 20>>, <<"o","r","m"," ","t","i","p","s">>, "# EF Core",
        Some(<<".NET", "ef core">>), "Steve Bang", "20 min read", Some("/images/ef.png"))

DocCaching ==
    Doc("ok", <<"C","a","c","h","i","n","g">>, <<2025, 5, 29>>, <<"R","e","d","i","s"," ","f","o","r"," ",".","N","E","T">>, "# Caching",
        Some(<<".NET", "Caching", ".NET">>), "Steve Bang", "30 min read", None)

DocNPlusOne ==
    Doc("ok", <<"N","+","1">>, <<2025, 6, 20>>, <<"E","F"," ","c","o","r","e"," ","n","+","1">>, "# N+1",
        None, "steve bang", "20 min read", None)

DocNotes ==
    Doc("ok", <<"N","o","t","e","s">>, <<2025, 13, 1>>, <<>>, "notes",
        Some(<<".net">>), "Guest", "1 min read", None)

DocRedis ==
    Doc("ok", <<"R","e","d","i","s">>, <<2024, 12, 31>>, <<"c","a","c","h","i","n","g">>, "# Redis",
        Some(<<>>), "Guest", "5 min read", Some("/images/redis.png"))

DocBadFrontMatter ==
    Doc("badFrontMatter", <<>>, <<>>, <<>>, "", None, "", "", None)

DocUnreadable ==
    Doc("unreadable", <<>>, <<>>, <<>>, "", None, "", "", None)

ValidDocs == {DocEfCore, DocCaching, DocNPlusOne, DocNotes, DocRedis}

Docs == ValidDocs \cup {DocBadFrontMatter, DocUnreadable}

\* fs.readFileSync(filePath, 'utf8') throws
readFileSyncThrows(doc) == doc.kind = "unreadable"

\* matter(fileContents) throws
matterThrows(doc) == doc.kind = "badFrontMatter"

----------------------------------------------------------------------------
(* The content directory: a function from the file names present to their   *)
(* documents.  fs.readdirSync returns the names in strcmp order.            *)

HandNames == << <<"a">>, <<"a", ".mdx">>, <<"b", ".mdx">>, <<"c", ".mdx">> >>

Digits == <<"0","1","2","3","4","5","6","7","8","9">>

BulkName(i) == <<"p", Digits[(i \div 10) + 1], Digits[(i % 10) + 1], ".mdx">>

BulkDocs == <<DocEfCore, DocCaching, DocNPlusOne, DocRedis>>

BulkDir(n) ==
    [nm \in {BulkName(i) : i \in 1..n} |->
        BulkDocs[(((CHOOSE i \in 1..n : BulkName(i) = nm) - 1) % Len(BulkDocs)) + 1]]

AllNames == HandNames \o [i \in 1..(MaxCount + 1) |-> BulkName(i)]

HandDirectories ==
    UNION {[S -> Docs] : S \in {T \in SUBSET Range(HandNames) : Cardinality(T) <= MaxFiles}}

BulkDirectories == {BulkDir(n) : n \in 0..MaxCount}

Directories == HandDirectories \cup BulkDirectories

RECURSIVE SelectNames(_, _)
SelectNames(names, d) ==
    IF names = <<>> THEN <<>>
    ELSE IF Head(names) \in DOMAIN d
         THEN <<Head(names)>> \o SelectNames(Tail(names), d)
         ELSE SelectNames(Tail(names), d)

readdirSync(d) == SelectNames(AllNames, d)

----------------------------------------------------------------------------
(* mdx.ts: building a BlogPost *)

\* filename.replace('.mdx', ''): drops the first occurrence of ".mdx"
RECURSIVE replaceMdx(_)
replaceMdx(filename) ==
    IF filename = <<>> THEN <<>>
    ELSE IF Head(filename) = ".mdx" THEN Tail(filename)
         ELSE <<Head(filename)>> \o replaceMdx(Tail(filename))

\* mutant: tags: data.tags, without the default; the field stays undefined,
\* written here as the marker <<"undefined">>
tagsWithoutDefault(tags) == IF tags = None THEN <<"undefined">> ELSE tags[1]

\* data.tags || []
tagsOrEmpty(tags) == IF tags = None THEN <<>> ELSE tags[1]

BlogPost(slug, doc) ==
    [slug |-> slug, title |-> doc.title, date |-> doc.date,
     description |-> doc.description, content |-> doc.content,
     tags |-> tagsOrEmpty(doc.tags), author |-> doc.author,
     readingTime |-> doc.readingTime, image |-> doc.image]

----------------------------------------------------------------------------
(* Array.prototype.sort with the comparator of getBlogPosts *)

\* new Date(y).getTime() - new Date(x).getTime()
timeDifference(y, x) ==
    IF getTime(y).nan \/ getTime(x).nan THEN NaN
    ELSE Num(getTime(y).val - getTime(x).val)

\* mutant: the operands swapped, an ascending sort
compareFnAscending(a, b) == timeDifference(a.date, b.date)

\* (a, b) => new Date(b.date).getTime() - new Date(a.date).getTime()
compareFn(a, b) == timeDifference(b.date, a.date)

\* SortCompare: a NaN comparator result counts as +0
SortCompare(a, b) ==
    LET v == compareFn(a, b) IN IF v.nan THEN 0 ELSE v.val

\* SortCompare of two posts with the dates x and y (it reads nothing else)
CompareDates(x, y) == SortCompare([date |-> x], [date |-> y])

\* the comparator is a consistent comparator for the posts of S
\* (ECMAScript, Array.prototype.sort), stated on their dates
ConsistentComparator(S) ==
    \A x, y, z \in {p.date : p \in S} :
        /\ (CompareDates(x, y) = 0 /\ CompareDates(y, z) = 0) => CompareDates(x, z) = 0
        /\ (CompareDates(x, y) < 0 /\ CompareDates(y, z) < 0) => CompareDates(x, z) < 0
        /\ (CompareDates(x, y) > 0 /\ CompareDates(y, z) > 0) => CompareDates(x, z) > 0

RECURSIVE Insert(_, _)
Insert(s, x) ==
    IF s = <<>> THEN <<x>>
    ELSE IF SortCompare(s[Len(s)], x) > 0
         THEN Append(Insert(SubSeq(s, 1, Len(s) - 1), x), s[Len(s)])
         ELSE Append(s, x)

\* the stable sort (the only result a consistent comparator allows)
RECURSIVE StableSort(_)
StableSort(s) ==
    IF s = <<>> THEN <<>>
    ELSE Insert(StableSort(SubSeq(s, 1, Len(s) - 1)), s[Len(s)])

permutationsOf(s) ==
    {[i \in 1..Len(s) |-> s[f[i]]] :
        f \in {g \in [1..Len(s) -> 1..Len(s)] : \A i, j \in 1..Len(s) : g[i] = g[j] => i = j}}

\* posts.sort(compareFn): with an inconsistent comparator the order is
\* implementation-defined, any permutation
sortOutcomes(s) ==
    IF ConsistentComparator(Range(s)) THEN {StableSort(s)} ELSE permutationsOf(s)

----------------------------------------------------------------------------
(* mdx.ts: getBlogPosts, getBlogPost and the filters.  A call's result is   *)
(* [outcome |-> "value" | "null" | "throw", value |-> sequence of posts].   *)

Throw == [outcome |-> "throw", value |-> <<>>]

Null == [outcome |-> "null", value |-> <<>>]

Value(v) == [outcome |-> "value", value |-> v]

\* the files.map(async (filename) => ...) callback rejects
fileThrows(d, filename) ==
    readFileSyncThrows(d[filename]) \/ matterThrows(d[filename])

\* mutant: the mapping starts at the second file
mappedPostsFromSecond(d) ==
    LET files == readdirSync(d)
    IN  [i \in 1..(Len(files) - 1) |->
            BlogPost(replaceMdx(files[i + 1]), d[files[i + 1]])]

mappedPosts(d) ==
    LET files == readdirSync(d)
    IN  [i \in 1..Len(files) |-> BlogPost(replaceMdx(files[i]), d[files[i]])]

\* the set of results getBlogPosts() can produce on directory d
getBlogPosts(d) ==
    IF \E filename \in DOMAIN d : fileThrows(d, filename)
    THEN {Throw}
    ELSE {Value(s) : s \in sortOutcomes(mappedPosts(d))}

\* mutant: no try/catch, the ENOENT of a missing file propagates
getBlogPostNoCatch(d, slug) ==
    IF (slug \o <<".mdx">>) \notin DOMAIN d
       \/ readFileSyncThrows(d[slug \o <<".mdx">>])
       \/ matterThrows(d[slug \o <<".mdx">>])
    THEN [outcome |-> "throw", value |-> <<>>, logged |-> FALSE]
    ELSE [outcome |-> "value",
          value |-> <<BlogPost(slug, d[slug \o <<".mdx">>])>>,
          logged |-> FALSE]

\* mutant: the catch handles a missing file only, a document that cannot be
\* read or parsed makes the call throw
getBlogPostCatchMissingOnly(d, slug) ==
    IF (slug \o <<".mdx">>) \notin DOMAIN d
    THEN [outcome |-> "null", value |-> <<>>, logged |-> TRUE]
    ELSE IF readFileSyncThrows(d[slug \o <<".mdx">>])
            \/ matterThrows(d[slug \o <<".mdx">>])
    THEN [outcome |-> "throw", value |-> <<>>, logged |-> FALSE]
    ELSE [outcome |-> "value",
          value |-> <<BlogPost(slug, d[slug \o <<".mdx">>])>>,
          logged |-> FALSE]

\* getBlogPost(slug): [outcome, value, logged]
getBlogPost(d, slug) ==
    IF (slug \o <<".mdx">>) \notin DOMAIN d
       \/ readFileSyncThrows(d[slug \o <<".mdx">>])
       \/ matterThrows(d[slug \o <<".mdx">>])
    THEN [outcome |-> "null", value |-> <<>>, logged |-> TRUE]
    ELSE [outcome |-> "value",
          value |-> <<BlogPost(slug, d[slug \o <<".mdx">>])>>,
          logged |-> FALSE]

\* Array.prototype.filter: the kept elements, in their original order
filter(s, keep(_)) == SelectSeq(s, keep)

\* the receiver after posts.filter(callback): filter builds a new array and
\* the callbacks of this module only read their post
afterFilter(posts) == posts

\* the receiver after posts.flatMap(post => post.tags)
afterFlatMap(posts) == posts

\* mutant: only the first tag of the post is compared
tagPredicateFirstOnly(post, tag) == post.tags # <<>> /\ post.tags[1] = tag

\* post => post.tags.includes(tag)
tagPredicate(post, tag) == \E i \in 1..Len(post.tags) : post.tags[i] = tag

\* mutant: post.author = author, an assignment, truthy for a non-empty author
authorPredicateAssign(post, author) == author # ""

\* post => post.author === author
authorPredicate(post, author) == post.author = author

\* mutant: the description is not searched
searchPredicateTitleOnly(post, searchQuery) ==
    includes(toLowerCase(post.title), searchQuery)

\* post => post.title.toLowerCase().includes(searchQuery) ||
\*         post.description.toLowerCase().includes(searchQuery)
searchPredicate(post, searchQuery) ==
    \/ includes(toLowerCase(post.title), searchQuery)
    \/ includes(toLowerCase(post.description), searchQuery)

\* getBlogPostsByTag, after posts = await getBlogPosts() returned posts
getBlogPostsByTag(posts, tag) ==
    LET keep(post) == tagPredicate(post, tag) IN filter(posts, keep)

getBlogPostsByAuthor(posts, author) ==
    LET keep(post) == authorPredicate(post, author) IN filter(posts, keep)

\* getBlogPostsBySearch, after posts = await getBlogPosts() returned posts;
\* query is optional: query.toLowerCase() throws a TypeError on undefined
getBlogPostsBySearch(posts, query) ==
    IF query = None THEN Throw
    ELSE LET keep(post) == searchPredicate(post, toLowerCase(query[1]))
         IN  Value(filter(posts, keep))

----------------------------------------------------------------------------
(* Tags page and tag page (the components that follow getBlogPostsBySearch  *)
(* in src/src/lib/mdx.ts)                                                   *)

\* posts.flatMap(post => post.tags)
RECURSIVE flatMapTags(_)
flatMapTags(posts) ==
    IF posts = <<>> THEN <<>> ELSE Head(posts).tags \o flatMapTags(Tail(posts))

\* mutant: Array.from(xs), no de-duplication
arrayFromSetKeepAll(xs) == xs

\* Array.from(new Set(xs)): the distinct elements in order of first occurrence
RECURSIVE arrayFromSet(_)
arrayFromSet(xs) ==
    IF xs = <<>> THEN <<>>
    ELSE IF xs[Len(xs)] \in Range(SubSeq(xs, 1, Len(xs) - 1))
         THEN arrayFromSet(SubSeq(xs, 1, Len(xs) - 1))
         ELSE Append(arrayFromSet(SubSeq(xs, 1, Len(xs) - 1)), xs[Len(xs)])

\* TagsPage: const tags = Array.from(new Set(posts.flatMap(post => post.tags)))
distinctTags(posts) == arrayFromSet(flatMapTags(posts))

\* TagPage: posts.filter(post => post.tags.includes(slug))
tagPageFilter(posts, slug) ==
    LET keep(post) == tagPredicate(post, slug) IN filter(posts, keep)

----------------------------------------------------------------------------
(* Blog page (src/unnamed/part_007): page number, page count and slice *)

maxItemsPerPage == 6

IsDigit(c) == \E i \in 1..Len(Digits) : Digits[i] = c

DigitValue(c) == (CHOOSE i \in 1..Len(Digits) : Digits[i] = c) - 1

AllDigits(s) == s # <<>> /\ \A i \in 1..Len(s) : IsDigit(s[i])

RECURSIVE DigitsValue(_)
DigitsValue(s) ==
    IF s = <<>> THEN 0
    ELSE 10 * DigitsValue(SubSeq(s, 1, Len(s) - 1)) + DigitValue(s[Len(s)])

\* Number(page) for a string of sign and digit characters; anything else is NaN
Number(s) ==
    IF s = <<>> THEN Num(0)
    ELSE IF AllDigits(s) THEN Num(DigitsValue(s))
    ELSE IF Head(s) = "-" /\ AllDigits(Tail(s)) THEN Num(0 - DigitsValue(Tail(s)))
    ELSE IF Head(s) = "+" /\ AllDigits(Tail(s)) THEN Num(DigitsValue(Tail(s)))
    ELSE NaN

\* const pageNumber = page ? Number(page) : 1   (undefined and "" are falsy)
pageNumberOf(page) ==
    IF page = None \/ page[1] = <<>> THEN Num(1) ELSE Number(page[1])

\* Math.ceil(length / maxItemsPerPage)
totalPagesOf(length) ==
    IF length % maxItemsPerPage = 0
    THEN length \div maxItemsPerPage
    ELSE (length \div maxItemsPerPage) + 1

\* mutant: pageNumber * maxItemsPerPage, pages counted from 0
startIndexOfZeroBased(pageNumber) ==
    IF pageNumber.nan THEN NaN ELSE Num(pageNumber.val * maxItemsPerPage)

\* (pageNumber - 1) * maxItemsPerPage
startIndexOf(pageNumber) ==
    IF pageNumber.nan THEN NaN ELSE Num((pageNumber.val - 1) * maxItemsPerPage)

\* startIndex + maxItemsPerPage
endIndexOf(startIndex) ==
    IF startIndex.nan THEN NaN ELSE Num(startIndex.val + maxItemsPerPage)

\* ToIntegerOrInfinity followed by the clamping of Array.prototype.slice
relativeIndex(n, len) ==
    IF n.nan THEN 0
    ELSE IF n.val < 0 THEN Max(len + n.val, 0) ELSE Min(n.val, len)

\* posts.slice(start, end)
slice(s, start, end) ==
    IF relativeIndex(end, Len(s)) <= relativeIndex(start, Len(s)) THEN <<>>
    ELSE SubSeq(s, relativeIndex(start, Len(s)) + 1, relativeIndex(end, Len(s)))

paginatedPostsOf(posts, pageNumber) ==
    slice(posts, startIndexOf(pageNumber), endIndexOf(startIndexOf(pageNumber)))

\* mutant: the page number is range-checked and a RangeError thrown
blogPageOutcomeRangeChecked(posts, pageNumber) ==
    IF pageNumber.nan \/ pageNumber.val < 1
       \/ pageNumber.val > totalPagesOf(Len(posts))
    THEN "throw" ELSE "value"

\* Number, Math.ceil, the arithmetic, slice and the map over the slice:
\* none of them throws, whatever the page number
blogPageOutcome(posts, pageNumber) == "value"

\* mutant: posts.splice(start, deleteCount) removes the page from the array
afterSplice(posts, start, end) ==
    SubSeq(posts, 1, relativeIndex(start, Len(posts)))
    \o SubSeq(posts, Max(relativeIndex(end, Len(posts)),
                         relativeIndex(start, Len(posts))) + 1, Len(posts))

\* the receiver after posts.slice(start, end): slice copies, posts is as before
afterSlice(posts, start, end) == posts


\* String(p) for an integer p >= 0, as the template literal `?page=${p}`
\* writes it
RECURSIVE numberToString(_)
numberToString(n) ==
    IF n < 10 THEN <<Digits[n + 1]>>
    ELSE Append(numberToString(n \div 10), Digits[(n % 10) + 1])

\* mutant: the links are numbered from 0, (_, i) => i
paginationPagesZeroBased(totalPages) == [i \in 1..totalPages |-> i - 1]

\* Array.from({ length: totalPages }, (_, i) => i + 1)
paginationPages(totalPages) == [i \in 1..totalPages |-> i]

\* Pagination: the page parameters of the links it renders, in order
\* (href = `${baseUrl}?page=${p}`)
paginationLinks(totalPages) ==
    [i \in 1..Len(paginationPages(totalPages)) |->
        numberToString(paginationPages(totalPages)[i])]

----------------------------------------------------------------------------
(* Heading extractor (src/unnamed/part_006).  The input is given as the     *)
(* syntax tree that unified().use(remarkParse).parse(markdown) yields: the  *)
(* sequence of the root's children, each node                               *)
(* [type, depth, value, children].                                          *)

Node(type, depth, value, children) ==
    [type |-> type, depth |-> depth, value |-> value, children |-> children]

Text(value) == Node("text", 0, value, <<>>)

InlineCode(value) == Node("inlineCode", 0, value, <<>>)

Strong(children) == Node("strong", 0, <<>>, children)

Emphasis(children) == Node("emphasis", 0, <<>>, children)

Heading(depth, children) == Node("heading", depth, <<>>, children)

Paragraph(children) == Node("paragraph", 0, <<>>, children)

Blockquote(children) == Node("blockquote", 0, <<>>, children)

\* # A
HeadingA == Heading(1, <<Text(<<"A">>)>>)

\* ## B
HeadingB == Heading(2, <<Text(<<"B">>)>>)

\* ### C
HeadingC == Heading(3, <<Text(<<"C">>)>>)

\* ## N+1 Problem!
HeadingNPlusOne == Heading(2, <<Text(<<"N","+","1"," ","P","r","o","b","l","e","m","!">>)>>)

\* #### Use **EF** and `Include` *now*
HeadingFormatted ==
    Heading(4, <<Text(<<"U","s","e"," ">>), Strong(<<Text(<<"E","F">>)>>), Text(<<" ","a","n","d"," ">>),
                 InlineCode(<<"I","n","c","l","u","d","e">>), Text(<<" ">>), Emphasis(<<Text(<<"n","o","w">>)>>)>>)

\* ###### `x_1`
HeadingCode == Heading(6, <<InlineCode(<<"x","_","1">>)>>)

\* a paragraph
ParagraphP == Paragraph(<<Text(<<"p","a","r","a">>), Strong(<<Text(<<"b","o","l","d">>)>>)>>)

\* > quoted
\* > ##### Q
QuoteQ == Blockquote(<<Paragraph(<<Text(<<"q","u","o","t","e","d">>)>>), Heading(5, <<Text(<<"Q">>)>>)>>)

Blocks == {HeadingA, HeadingB, HeadingC, HeadingNPlusOne, HeadingFormatted,
           HeadingCode, ParagraphP, QuoteQ}

Trees == UNION {[1..n -> Blocks] : n \in 0..MaxBlocks}

\* mutant: only the root's children are visited
visitHeadingsTopLevel(nodes) ==
    LET IsHeading(n) == n.type = "heading" IN SelectSeq(nodes, IsHeading)

\* visit(tree, 'heading', ...): the heading nodes of the tree in preorder
RECURSIVE visitHeadings(_)
visitHeadings(nodes) ==
    IF nodes = <<>> THEN <<>>
    ELSE (IF Head(nodes).type = "heading" THEN <<Head(nodes)>> ELSE <<>>)
         \o visitHeadings(Head(nodes).children)
         \o visitHeadings(Tail(nodes))

\* .map(n => n.value).join('')
RECURSIVE joinValues(_)
joinValues(nodes) ==
    IF nodes = <<>> THEN <<>> ELSE Head(nodes).value \o joinValues(Tail(nodes))

\* node.children.filter(n => n.type === 'text' || n.type === 'inlineCode')
\*              .map(n => n.value).join('')
headingText(node) ==
    LET IsLiteral(n) == n.type = "text" \/ n.type = "inlineCode"
    IN  joinValues(SelectSeq(node.children, IsLiteral))

\* \w
IsWordChar(c) ==
    c \in Range(UpperChars) \cup Range(LowerChars) \cup Range(Digits) \cup {"_"}

\* mutant: /[^\w]/g, every non-word character becomes a hyphen
replaceEachNonWord(s) == [i \in 1..Len(s) |-> IF IsWordChar(s[i]) THEN s[i] ELSE "-"]

\* s.replace(/[^\w]+/g, '-')
RECURSIVE replaceNonWordRuns(_)
replaceNonWordRuns(s) ==
    IF s = <<>> THEN <<>>
    ELSE IF IsWordChar(s[Len(s)])
         THEN Append(replaceNonWordRuns(SubSeq(s, 1, Len(s) - 1)), s[Len(s)])
         ELSE IF Len(s) > 1 /\ ~IsWordChar(s[Len(s) - 1])
              THEN replaceNonWordRuns(SubSeq(s, 1, Len(s) - 1))
              ELSE Append(replaceNonWordRuns(SubSeq(s, 1, Len(s) - 1)), "-")

\* text.toLowerCase().replace(/[^\w]+/g, '-')
headingId(text) == replaceNonWordRuns(toLowerCase(text))

\* mutant: a slugger that tells repeated ids apart, the k-th repetition of a
\* text getting the suffix -k
extractHeadingsDisambiguated(tree) ==
    LET nodes == visitHeadings(tree)
        earlier(i) == Cardinality({j \in 1..(i - 1) :
                                     headingText(nodes[j]) = headingText(nodes[i])})
    IN  [i \in 1..Len(nodes) |->
            [id |-> IF earlier(i) = 0
                    THEN headingId(headingText(nodes[i]))
                    ELSE headingId(headingText(nodes[i])) \o <<"-", Digits[earlier(i) + 1]>>,
             text |-> headingText(nodes[i]),
             level |-> nodes[i].depth]]

\* extractHeadings(markdown), tree being the parse of markdown
extractHeadings(tree) ==
    LET nodes == visitHeadings(tree)
    IN  [i \in 1..Len(nodes) |->
            [id |-> headingId(headingText(nodes[i])),
             text |-> headingText(nodes[i]),
             level |-> nodes[i].depth]]

----------------------------------------------------------------------------
(* Post page (src/unnamed/part_008): generateMetadata and BlogPostPage *)

NoMetadata == [title |-> <<>>, robots |-> ""]

NotFoundTitle ==
    <<"P","o","s","t"," ","N","o","t"," ","F","o","u","n","d"," ","-"," ","S","t","e","v","e"," ","B","a","n","g">>

TitleSuffix == <<" ","-"," ","S","t","e","v","e"," ","B","a","n","g">>

\* generateMetadata: [outcome, metadata]
generateMetadata(d, slug) ==
    LET post == getBlogPost(d, slug)
    IN  IF post.outcome = "throw"
        THEN [outcome |-> "throw", metadata |-> NoMetadata, logged |-> post.logged]
        ELSE IF post.outcome = "null"
        THEN [outcome |-> "value", logged |-> post.logged,
              metadata |-> [title |-> NotFoundTitle, robots |-> "noindex, nofollow"]]
        ELSE [outcome |-> "value", logged |-> post.logged,
              metadata |-> [title |-> post.value[1].title \o TitleSuffix,
                            robots |-> "index, follow, max-image-preview:large, max-snippet:-1, max-video-preview:-1"]]

\* mutant: the if (!post) notFound() guard is missing, addJsonLd(post) reads
\* post.title of null and throws a TypeError
renderBlogPostPageWithoutGuard(d, slug) ==
    LET post == getBlogPost(d, slug)
    IN  IF post.outcome = "value"
        THEN [outcome |-> "value", value |-> post.value, readsPost |-> TRUE,
              logged |-> post.logged]
        ELSE [outcome |-> "throw", value |-> <<>>, readsPost |-> TRUE,
              logged |-> post.logged]

\* BlogPostPage: notFound() throws the framework's not-found signal, so
\* nothing after it runs; otherwise the article is rendered from the post
renderBlogPostPage(d, slug) ==
    LET post == getBlogPost(d, slug)
    IN  IF post.outcome = "throw"
        THEN [outcome |-> "throw", value |-> <<>>, readsPost |-> FALSE,
              logged |-> post.logged]
        ELSE IF post.outcome = "null"
        THEN [outcome |-> "notFound", value |-> <<>>, readsPost |-> FALSE,
              logged |-> post.logged]
        ELSE [outcome |-> "value", value |-> post.value, readsPost |-> TRUE,
              logged |-> post.logged]

\* generateStaticParams: posts.map((post) => ({ slug: post.slug }))
staticParams(posts) == [i \in 1..Len(posts) |-> posts[i].slug]

----------------------------------------------------------------------------
(* Search endpoint (src/src/app/api/posts/route.ts) *)

\* searchParams.get("keywords")?.toLowerCase() ?? ""
keywordOf(keywords) == IF keywords = None THEN <<>> ELSE toLowerCase(keywords[1])

\* mutant: the early return is missing
isEmptyKeywordNever(keyword) == FALSE

\* if(keyword == "") return NextResponse.json([])
isEmptyKeyword(keyword) == keyword = <<>>

----------------------------------------------------------------------------
(* Inputs of the operations *)

Slugs == {<<"a">>, <<"b">>, <<"c">>, <<"p", "0", "1">>, <<"missing">>}

Tags == {".NET", ".net", "ef core", "Caching", "untagged"}

Authors == {"Steve Bang", "steve bang", "Guest", "Nobody"}

QueryStrings ==
    {<<>>, <<"e","f"," ","c","o","r","e">>, <<"E","F"," ","C">>, <<"r","e","d","i","s">>, <<" ">>, <<"n","+","1">>, <<"z","z","z">>}

\* a query / keywords / page parameter may be missing
Optional(S) == {None} \cup {Some(x) : x \in S}

PageStrings == {<<>>, <<"0">>, <<"1">>, <<"2">>, <<"3">>, <<"4">>, <<"1", "0">>,
                <<"-", "1">>, <<"a", "b", "c">>}

----------------------------------------------------------------------------
(* State: the content directory and the response of the request being       *)
(* served (Idle between requests).                                          *)
(* resp.postsAfter is the posts array as the handler leaves it.             *)
(* resp.posts is the handler's local  posts = await getBlogPosts()          *)
(* (None when that call threw or was not made).                             *)
(* resp.links is the page parameters of the links of the page's Pagination. *)
(* resp.params is what generateStaticParams returns, resp.lookups what      *)
(* getBlogPost answers for each of them when the post pages are built.      *)

Idle ==
    [op |-> "none", arg |-> <<>>, outcome |-> "none", value |-> <<>>,
     posts |-> None, tags |-> <<>>, pageNumber |-> NaN, totalPages |-> 0,
     logged |-> FALSE, postsAfter |-> None, headings |-> <<>>,
     readsPost |-> FALSE, metadata |-> NoMetadata, links |-> <<>>,
     params |-> <<>>, lookups |-> <<>>]

----------------------------------------------------------------------------
(* Concurrent getBlogPosts() calls (src/src/lib/mdx.ts, 19-43).  An async   *)
(* function runs to its await, is suspended, and is resumed by the event    *)
(* loop; calls in flight interleave at the await.  Arrays are heap objects: *)
(* heap maps the reference of each live array to its elements, and          *)
(* posts.sort() sorts the array of the reference in place.                  *)
(* sortOf is what is known of the engine's sort so far: Array.prototype.sort*)
(* is a function of the array's elements, so that the order it leaves is    *)
(* implementation-defined once, not chosen anew by each call.               *)

Calls == 1..MaxCalls

Refs == 1..MaxCalls

NoRef == 0

\* a call in flight, or none: the position of the call, the settled state of
\* the promise it awaits, its local  posts, what it returned, the elements
\* of the array it returned at the time of the return, and whether another
\* call was suspended when it started
IdleCall ==
    [pc |-> "idle", settled |-> "none", posts |-> NoRef, outcome |-> "none",
     returned |-> <<>>, overlapped |-> FALSE]

\* no call is in flight
NoCalls ==
    /\ heap = <<>>
    /\ calls = [c \in Calls |-> IdleCall]
    /\ sortOf = {}

\* mutant: the result array is a module-level array that every call fills
moduleLevelArray(h) == 1

\* Promise.all(...) resolves to a new array
newArray(h) == CHOOSE r \in Refs : r \notin DOMAIN h

\* array.sort(compareFn): the orders the engine may leave the elements in
sortResults(known, elements) ==
    IF \E pair \in known : pair[1] = elements
    THEN {pair[2] : pair \in {q \in known : q[1] = elements}}
    ELSE sortOutcomes(elements)

\* the arrays of h that a call of cs still refers to
liveArrays(h, cs) ==
    [r \in {x \in DOMAIN h : \E c \in DOMAIN cs : cs[c].posts = x} |-> h[r]]

----------------------------------------------------------------------------
(* The search modal (src/src/components/AnimatedSection.tsx, 157-241)       *)
(* modal.timers holds the pending timeouts [effect, query, remaining],       *)
(* modal.fetches the requests in flight; edits counts the runs of the query *)
(* effect, unchangedFor is the time since the last of them (up to           *)
(* debounceMs), sentSinceEdit the requests sent since then, sent the        *)
(* requests sent and cancelled the timers cleared since the modal was       *)
(* mounted; failed tells that a request has failed since the last edit.     *)

\* the modal as mounted: useState(""), useState(false), useState([]); no
\* timer pending, no request in flight
Mounted ==
    [query |-> <<>>, results |-> <<>>, isLoading |-> FALSE,
     timers |-> {}, fetches |-> {},
     unchangedFor |-> 0, edits |-> 0, sentSinceEdit |-> 0,
     sent |-> 0, cancelled |-> 0, failed |-> FALSE]

ModalMounted == modal = Mounted

\* setTimeout(..., 500), in milliseconds
debounceMs == 500

\* the step of the modal's clock, in milliseconds
TickMs == 250

IsWhiteSpace(c) == c = " "

\* query.trim()
RECURSIVE trim(_)
trim(s) ==
    IF s = <<>> THEN <<>>
    ELSE IF IsWhiteSpace(Head(s)) THEN trim(Tail(s))
    ELSE IF IsWhiteSpace(s[Len(s)]) THEN trim(SubSeq(s, 1, Len(s) - 1))
    ELSE s

\* !query || query.trim() == ''
isBlankQuery(q) == q = <<>> \/ trim(q) = <<>>

\* the part of the string before the first of the characters of stop
RECURSIVE upTo(_, _)
upTo(s, stop) ==
    IF s = <<>> \/ Head(s) \in stop THEN <<>>
    ELSE <<Head(s)>> \o upTo(Tail(s), stop)

\* the keywords parameter that the server reads from the URL
\* `api/posts?keywords=${query}`: the URL parser strips trailing spaces and
\* ends the query at '#', the parameter ends at '&', and '+' decodes to a
\* space
urlKeywords(q) ==
    LET stripped == IF q = <<>> THEN q
                    ELSE <<Head(q)>> \o
                         (IF trim(Tail(q)) = <<>> THEN <<>>
                          ELSE LET t == Tail(q)
                                   last == CHOOSE k \in 1..Len(t) :
                                             /\ ~IsWhiteSpace(t[k])
                                             /\ \A j \in (k + 1)..Len(t) : IsWhiteSpace(t[j])
                               IN  SubSeq(t, 1, last))
        param == upTo(stripped, {"#", "&"})
    IN  [i \in 1..Len(param) |-> IF param[i] = "+" THEN " " ELSE param[i]]

\* what GET /api/posts answers to the keywords parameter on directory d
endpointResponses(d, keywords) ==
    IF isEmptyKeyword(keywordOf(keywords)) THEN {Value(<<>>)}
    ELSE {IF r.outcome = "throw" THEN Throw
          ELSE getBlogPostsBySearch(r.value, Some(keywordOf(keywords))) :
              r \in getBlogPosts(d)}

\* mutant: the effect returns no cleanup, the timer of the previous query
\* stays pending
clearTimeoutMissing(pending, effect) == pending

\* return () => clearTimeout(delayDebounce), run before the next effect
clearTimeout(pending, effect) == {t \in pending : t.effect # effect}

\* the query effect (useEffect(..., [query])) run for the query q, after
\* the cleanup of the previous run
queryEffect(m, q) ==
    LET cleared == clearTimeout(m.timers, m.edits)
    IN  IF isBlankQuery(q)
        THEN [m EXCEPT !.query = q, !.results = <<>>, !.isLoading = FALSE,
                       !.timers = cleared,
                       !.cancelled = m.cancelled + Cardinality(m.timers \ cleared),
                       !.unchangedFor = 0, !.edits = m.edits + 1,
                       !.sentSinceEdit = 0, !.failed = FALSE]
        ELSE [m EXCEPT !.query = q, !.isLoading = TRUE,
                       !.timers = cleared \cup
                           {[effect |-> m.edits + 1, query |-> q, remaining |-> debounceMs]},
                       !.cancelled = m.cancelled + Cardinality(m.timers \ cleared),
                       !.unchangedFor = 0, !.edits = m.edits + 1,
                       !.sentSinceEdit = 0, !.failed = FALSE]

\* what the user types into the search input
ModalQueries ==
    {<<>>, <<" ">>, <<"e","f">>, <<"e","f"," ">>, <<"r","e","d","i","s">>}

\* the content directories the modal is exercised on
ModalDirectories ==
    {BulkDir(0), BulkDir(4)} \cup {d \in [{<<"a", ".mdx">>} -> Docs] : TRUE}

Init ==
    /\ dir \in Directories
    /\ resp = Idle
    /\ NoCalls
    /\ ModalMounted

\* getBlogPosts()
CallGetBlogPosts ==
    /\ resp = Idle
    /\ \E r \in getBlogPosts(dir) :
         resp' = [Idle EXCEPT !.op = "getBlogPosts", !.outcome = r.outcome,
                              !.value = r.value,
                              !.posts = IF r.outcome = "value" THEN Some(r.value) ELSE None]
    /\ UNCHANGED <<dir, callVars, modalVars>>

\* getBlogPost(slug)
CallGetBlogPost(slug) ==
    /\ resp = Idle
    /\ resp' = [Idle EXCEPT !.op = "getBlogPost", !.arg = slug,
                            !.outcome = getBlogPost(dir, slug).outcome,
                            !.value = getBlogPost(dir, slug).value,
                            !.logged = getBlogPost(dir, slug).logged]
    /\ UNCHANGED <<dir, callVars, modalVars>>

\* getBlogPostsByTag(tag)
CallGetBlogPostsByTag(tag) ==
    /\ resp = Idle
    /\ \E r \in getBlogPosts(dir) :
         resp' = IF r.outcome = "throw"
                 THEN [Idle EXCEPT !.op = "getBlogPostsByTag", !.arg = tag,
                                   !.outcome = "throw"]
                 ELSE [Idle EXCEPT !.op = "getBlogPostsByTag", !.arg = tag,
                                   !.outcome = "value", !.posts = Some(r.value),
                                   !.postsAfter = Some(afterFilter(r.value)),
                                   !.value = getBlogPostsByTag(r.value, tag)]
    /\ UNCHANGED <<dir, callVars, modalVars>>

\* getBlogPostsByAuthor(author)
CallGetBlogPostsByAuthor(author) ==
    /\ resp = Idle
    /\ \E r \in getBlogPosts(dir) :
         resp' = IF r.outcome = "throw"
                 THEN [Idle EXCEPT !.op = "getBlogPostsByAuthor", !.arg = author,
                                   !.outcome = "throw"]
                 ELSE [Idle EXCEPT !.op = "getBlogPostsByAuthor", !.arg = author,
                                   !.outcome = "value", !.posts = Some(r.value),
                                   !.postsAfter = Some(afterFilter(r.value)),
                                   !.value = getBlogPostsByAuthor(r.value, author)]
    /\ UNCHANGED <<dir, callVars, modalVars>>

\* getBlogPostsBySearch(query)
CallGetBlogPostsBySearch(query) ==
    /\ resp = Idle
    /\ \E r \in getBlogPosts(dir) :
         resp' = IF r.outcome = "throw"
                 THEN [Idle EXCEPT !.op = "getBlogPostsBySearch", !.arg = query,
                                   !.outcome = "throw"]
                 ELSE [Idle EXCEPT !.op = "getBlogPostsBySearch", !.arg = query,
                                   !.posts = Some(r.value),
                                   !.postsAfter = Some(afterFilter(r.value)),
                                   !.outcome = getBlogPostsBySearch(r.value, query).outcome,
                                   !.value = getBlogPostsBySearch(r.value, query).value]
    /\ UNCHANGED <<dir, callVars, modalVars>>

\* GET /api/posts?keywords=...
GET(keywords) ==
    /\ resp = Idle
    /\ IF isEmptyKeyword(keywordOf(keywords))
       THEN resp' = [Idle EXCEPT !.op = "GET", !.arg = keywords, !.outcome = "value"]
       ELSE \E r \in getBlogPosts(dir) :
              resp' = IF r.outcome = "throw"
                      THEN [Idle EXCEPT !.op = "GET", !.arg = keywords,
                                        !.outcome = "throw"]
                      ELSE [Idle EXCEPT !.op = "GET", !.arg = keywords,
                                        !.posts = Some(r.value),
                                        !.postsAfter = Some(afterFilter(r.value)),
                                        !.outcome = getBlogPostsBySearch(r.value,
                                                      Some(keywordOf(keywords))).outcome,
                                        !.value = getBlogPostsBySearch(r.value,
                                                      Some(keywordOf(keywords))).value]
    /\ UNCHANGED <<dir, callVars, modalVars>>

\* TagsPage()
TagsPage ==
    /\ resp = Idle
    /\ \E r \in getBlogPosts(dir) :
         resp' = IF r.outcome = "throw"
                 THEN [Idle EXCEPT !.op = "TagsPage", !.outcome = "throw"]
                 ELSE [Idle EXCEPT !.op = "TagsPage", !.outcome = "value",
                                   !.posts = Some(r.value),
                                   !.postsAfter = Some(afterFlatMap(r.value)),
                                   !.tags = distinctTags(r.value)]
    /\ UNCHANGED <<dir, callVars, modalVars>>

\* TagPage({ params: { slug } })
TagPage(slug) ==
    /\ resp = Idle
    /\ \E r \in getBlogPosts(dir) :
         resp' = IF r.outcome = "throw"
                 THEN [Idle EXCEPT !.op = "TagPage", !.arg = slug, !.outcome = "throw"]
                 ELSE [Idle EXCEPT !.op = "TagPage", !.arg = slug,
                                   !.outcome = "value", !.posts = Some(r.value),
                                   !.postsAfter = Some(afterFilter(r.value)),
                                   !.value = tagPageFilter(r.value, slug)]
    /\ UNCHANGED <<dir, callVars, modalVars>>

\* BlogPage({ searchParams: { page } })
BlogPage(page) ==
    /\ resp = Idle
    /\ \E r \in getBlogPosts(dir) :
         resp' = IF r.outcome = "throw"
                 THEN [Idle EXCEPT !.op = "BlogPage", !.arg = page, !.outcome = "throw"]
                 ELSE [Idle EXCEPT !.op = "BlogPage", !.arg = page,
                                   !.outcome = blogPageOutcome(r.value, pageNumberOf(page)),
                                   !.posts = Some(r.value),
                                   !.postsAfter =
                                       Some(afterSlice(r.value,
                                                startIndexOf(pageNumberOf(page)),
                                                endIndexOf(startIndexOf(pageNumberOf(page))))),
                                   !.pageNumber = pageNumberOf(page),
                                   !.totalPages = totalPagesOf(Len(r.value)),
                                   !.links = paginationLinks(totalPagesOf(Len(r.value))),
                                   !.value = paginatedPostsOf(r.value, pageNumberOf(page))]
    /\ UNCHANGED <<dir, callVars, modalVars>>

\* generateMetadata({ params: { slug } })
GenerateMetadata(slug) ==
    /\ resp = Idle
    /\ resp' = [Idle EXCEPT !.op = "generateMetadata", !.arg = slug,
                            !.outcome = generateMetadata(dir, slug).outcome,
                            !.metadata = generateMetadata(dir, slug).metadata,
                            !.logged = generateMetadata(dir, slug).logged]
    /\ UNCHANGED <<dir, callVars, modalVars>>

\* BlogPostPage({ params: { slug } })
BlogPostPage(slug) ==
    /\ resp = Idle
    /\ resp' = [Idle EXCEPT !.op = "BlogPostPage", !.arg = slug,
                            !.outcome = renderBlogPostPage(dir, slug).outcome,
                            !.value = renderBlogPostPage(dir, slug).value,
                            !.readsPost = renderBlogPostPage(dir, slug).readsPost,
                            !.logged = renderBlogPostPage(dir, slug).logged]
    /\ UNCHANGED <<dir, callVars, modalVars>>

\* generateStaticParams(), followed by the build of the post page of every
\* parameter it returned (each page calls getBlogPost(slug))
GenerateStaticParams ==
    /\ resp = Idle
    /\ \E r \in getBlogPosts(dir) :
         resp' = IF r.outcome = "throw"
                 THEN [Idle EXCEPT !.op = "generateStaticParams", !.outcome = "throw"]
                 ELSE [Idle EXCEPT !.op = "generateStaticParams", !.outcome = "value",
                                   !.posts = Some(r.value),
                                   !.value = r.value,
                                   !.params = staticParams(r.value),
                                   !.lookups = [i \in 1..Len(staticParams(r.value)) |->
                                                   getBlogPost(dir, staticParams(r.value)[i])]]
    /\ UNCHANGED <<dir, callVars, modalVars>>

\* extractHeadings(markdown)
ExtractHeadings(tree) ==
    /\ resp = Idle
    /\ resp' = [Idle EXCEPT !.op = "extractHeadings", !.arg = tree,
                            !.outcome = "value",
                            !.headings = extractHeadings(tree)]
    /\ UNCHANGED <<dir, callVars, modalVars>>

\* the response is delivered and the request's objects are discarded
Complete ==
    /\ resp # Idle
    /\ resp' = Idle
    /\ UNCHANGED <<dir, callVars, modalVars>>

Next ==
    \/ CallGetBlogPosts
    \/ \E slug \in Slugs : CallGetBlogPost(slug)
    \/ \E tag \in Tags : CallGetBlogPostsByTag(tag)
    \/ \E author \in Authors : CallGetBlogPostsByAuthor(author)
    \/ \E query \in Optional(QueryStrings) : CallGetBlogPostsBySearch(query)
    \/ \E keywords \in Optional(QueryStrings) : GET(keywords)
    \/ TagsPage
    \/ \E slug \in Tags : TagPage(slug)
    \/ \E page \in Optional(PageStrings) : BlogPage(page)
    \/ \E slug \in Slugs : GenerateMetadata(slug)
    \/ \E slug \in Slugs : BlogPostPage(slug)
    \/ GenerateStaticParams
    \/ Complete

Spec == Init /\ [][Next]_vars

----------------------------------------------------------------------------
(* Two or more getBlogPosts() calls in flight *)

\* getBlogPosts() is called and runs to  await Promise.all(...): the
\* directory is listed, every file is read and parsed (the callbacks have
\* no await of their own), and the promise is fulfilled with a new array of
\* the posts, or rejected when a callback threw
GetBlogPostsStart(c) ==
    /\ calls[c].pc = "idle"
    /\ LET ref == newArray(heap)
           busy == \E o \in Calls : calls[o].pc = "awaiting"
       IN  IF \E filename \in DOMAIN dir : fileThrows(dir, filename)
           THEN /\ calls' = [calls EXCEPT ![c] =
                                [IdleCall EXCEPT !.pc = "awaiting",
                                                 !.settled = "rejected",
                                                 !.overlapped = busy]]
                /\ heap' = heap
           ELSE /\ calls' = [calls EXCEPT ![c] =
                                [IdleCall EXCEPT !.pc = "awaiting",
                                                 !.settled = "fulfilled",
                                                 !.posts = ref,
                                                 !.overlapped = busy]]
                /\ heap' = [r \in DOMAIN heap \cup {ref} |->
                               IF r = ref THEN mappedPosts(dir) ELSE heap[r]]
    /\ UNCHANGED <<dir, resp, sortOf, modalVars>>

\* the event loop resumes the call: the await throws, or posts is sorted in
\* place and returned
GetBlogPostsResume(c) ==
    /\ calls[c].pc = "awaiting"
    /\ IF calls[c].settled = "rejected"
       THEN /\ calls' = [calls EXCEPT ![c].pc = "returned", ![c].outcome = "throw"]
            /\ UNCHANGED <<heap, sortOf>>
       ELSE \E sorted \in sortResults(sortOf, heap[calls[c].posts]) :
              /\ heap' = [heap EXCEPT ![calls[c].posts] = sorted]
              /\ sortOf' = sortOf \cup {<<heap[calls[c].posts], sorted>>}
              /\ calls' = [calls EXCEPT ![c].pc = "returned",
                                        ![c].outcome = "value",
                                        ![c].returned = sorted]
    /\ UNCHANGED <<dir, resp, modalVars>>

\* the caller is done with the result; an array no call refers to is
\* garbage
GetBlogPostsDone(c) ==
    /\ calls[c].pc = "returned"
    /\ calls' = [calls EXCEPT ![c] = IdleCall]
    /\ heap' = liveArrays(heap, calls')
    /\ UNCHANGED <<dir, resp, sortOf, modalVars>>

\* the content directories the concurrent calls are exercised on: up to
\* three documents, among them one with an invalid date (an inconsistent
\* comparator) and one that cannot be parsed
ConcurrentDirectories ==
    UNION {[S -> {DocEfCore, DocCaching, DocNotes, DocBadFrontMatter}] :
              S \in SUBSET {<<"a", ".mdx">>, <<"b", ".mdx">>, <<"c", ".mdx">>}}

ConcurrentInit ==
    /\ dir \in ConcurrentDirectories
    /\ resp = Idle
    /\ NoCalls
    /\ ModalMounted

ConcurrentNext ==
    \/ \E c \in Calls : GetBlogPostsStart(c)
    \/ \E c \in Calls : GetBlogPostsResume(c)
    \/ \E c \in Calls : GetBlogPostsDone(c)

ConcurrentSpec == ConcurrentInit /\ [][ConcurrentNext]_vars

----------------------------------------------------------------------------
(* The search modal in the browser.  Event handlers, effects, timer         *)
(* callbacks and promise continuations each run to completion on the one    *)
(* thread of the page; a change of the query re-renders the modal and runs  *)
(* the cleanup of the previous query effect and then the effect.            *)

\* onChange={(e) => setQuery(e.target.value)} with a value other than the
\* current one
SetQuery(q) ==
    /\ q # modal.query
    /\ modal.edits < MaxEdits
    /\ modal' = queryEffect(modal, q)
    /\ UNCHANGED <<dir, resp, callVars>>

\* onCloseModal: setQuery(""), setResults([]), setIsLoading(false); the
\* query effect runs again when the query was not "" already
OnCloseModal ==
    /\ IF modal.query # <<>>
       THEN /\ modal.edits < MaxEdits
            /\ modal' = [queryEffect(modal, <<>>) EXCEPT !.results = <<>>,
                                                          !.isLoading = FALSE]
       ELSE modal' = [modal EXCEPT !.results = <<>>, !.isLoading = FALSE]
    /\ UNCHANGED <<dir, resp, callVars>>

\* TickMs pass without an event; a timer that is due fires first
Tick ==
    /\ modal.unchangedFor < debounceMs
    /\ \A t \in modal.timers : t.remaining > 0
    /\ modal' = [modal EXCEPT
                    !.unchangedFor = modal.unchangedFor + TickMs,
                    !.timers = {[t EXCEPT !.remaining = Max(0, t.remaining - TickMs)] :
                                   t \in modal.timers}]
    /\ UNCHANGED <<dir, resp, callVars>>

\* the timeout callback starts: fetch(`api/posts?keywords=${query}`) with
\* the query of its effect, and the callback is suspended at the await
TimerFires(t) ==
    /\ t \in modal.timers
    /\ t.remaining = 0
    /\ modal' = [modal EXCEPT
                    !.timers = modal.timers \ {t},
                    !.fetches = modal.fetches \cup
                        {[effect |-> t.effect, query |-> t.query,
                          keywords |-> urlKeywords(t.query),
                          unchangedAtSend |-> modal.unchangedFor,
                          queryAtSend |-> modal.query]},
                    !.sentSinceEdit = modal.sentSinceEdit + 1,
                    !.sent = modal.sent + 1]
    /\ UNCHANGED <<dir, resp, callVars>>

\* the response of a request arrives: res.json() gives the posts and
\* setResults(json) shows them, or the server answered an error page and
\* res.json() throws; finally setIsLoading(false)
FetchResponds(f) ==
    /\ f \in modal.fetches
    /\ \E r \in endpointResponses(dir, Some(f.keywords)) :
         modal' = [modal EXCEPT
                      !.fetches = modal.fetches \ {f},
                      !.results = IF r.outcome = "value" THEN r.value ELSE modal.results,
                      !.failed = IF r.outcome = "value" THEN modal.failed ELSE TRUE,
                      !.isLoading = FALSE]
    /\ UNCHANGED <<dir, resp, callVars>>

\* the request fails (the fetch promise rejects): finally setIsLoading(false)
FetchFails(f) ==
    /\ f \in modal.fetches
    /\ modal' = [modal EXCEPT !.fetches = modal.fetches \ {f},
                              !.failed = TRUE,
                              !.isLoading = FALSE]
    /\ UNCHANGED <<dir, resp, callVars>>

ModalInit ==
    /\ dir \in ModalDirectories
    /\ resp = Idle
    /\ NoCalls
    /\ ModalMounted

ModalNext ==
    \/ \E q \in ModalQueries : SetQuery(q)
    \/ OnCloseModal
    \/ Tick
    \/ \E t \in modal.timers : TimerFires(t)
    \/ \E f \in modal.fetches : FetchResponds(f)
    \/ \E f \in modal.fetches : FetchFails(f)

\* the page's event loop and the network make progress: while time can
\* pass, a timer is due or a request is in flight, one of them goes on
ModalProgress ==
    \/ Tick
    \/ \E t \in modal.timers : TimerFires(t)
    \/ \E f \in modal.fetches : FetchFails(f) \/ FetchResponds(f)

ModalFairness == WF_vars(ModalProgress)

ModalSpec == ModalInit /\ [][ModalNext]_vars /\ ModalFairness

\* The heading extractor reads no content directory: its specification
\* applies it to every tree of the bounds.
HeadingInit ==
    /\ dir = BulkDir(0)
    /\ resp = Idle
    /\ NoCalls
    /\ ModalMounted

HeadingNext ==
    \/ \E tree \in Trees : ExtractHeadings(tree)
    \/ Complete

HeadingSpec == HeadingInit /\ [][HeadingNext]_vars

----------------------------------------------------------------------------
(* Vocabulary of the properties, stated without the operators of the model *)

\* calendar order of two dates <<y, m, d>>: x is the same day as y or later
DateAtLeast(x, y) ==
    \/ x[1] > y[1]
    \/ x[1] = y[1] /\ x[2] > y[2]
    \/ x[1] = y[1] /\ x[2] = y[2] /\ x[3] >= y[3]

AllDatesValid(d) == \A f \in DOMAIN d : IsValidDate(d[f].date)

AllDocsOk(d) == \A f \in DOMAIN d : d[f].kind = "ok"

\* the two characters are the same letter, whatever their case
SameLetter(c1, c2) ==
    \/ c1 = c2
    \/ \E i \in 1..Len(UpperChars) : {c1, c2} = {UpperChars[i], LowerChars[i]}

\* q occurs in s as a substring, ignoring case
ContainsIgnoringCase(s, q) ==
    \E i \in 0..(Len(s) - Len(q)) : \A k \in 1..Len(q) : SameLetter(s[i + k], q[k])

\* value consists of exactly the elements of posts that satisfy Keep, each
\* position of posts used once, in the order of posts
IsSelectionOf(value, posts, Keep(_)) ==
    LET I == {j \in 1..Len(posts) : Keep(posts[j])}
    IN  /\ Len(value) = Cardinality(I)
        /\ \A i \in 1..Len(value) :
             value[i] = posts[CHOOSE j \in I : Cardinality({k \in I : k <= j}) = i]

----------------------------------------------------------------------------
(* Properties *)

\* C1: when every document's date is a valid calendar date, the posts that
\* getBlogPosts() returns are in descending date order: for all positions
\* i < j, date[i] is the same day as date[j] or later.
C1_SortedByDateDescending ==
    (resp.op = "getBlogPosts" /\ resp.outcome = "value" /\ AllDatesValid(dir))
    => \A i, j \in 1..Len(resp.value) :
         i < j => DateAtLeast(resp.value[i].date, resp.value[j].date)

\* C1 witness: a listing whose directory order was not the date order, with
\* two posts of the same date and one older
C1_Witness ==
    /\ resp.op = "getBlogPosts" /\ resp.outcome = "value" /\ AllDatesValid(dir)
    /\ Len(resp.value) >= 3
    /\ resp.value # mappedPosts(dir)
    /\ resp.value[1].date = resp.value[2].date
    /\ resp.value[2].date # resp.value[3].date

\* C2: getBlogPost(s) never throws; it returns the post with slug s built
\* from the document s.mdx when that document is there and parses, and
\* null otherwise, in particular when there is no document for s.
C2_GetBySlugOrNull ==
    resp.op = "getBlogPost"
    => /\ resp.outcome # "throw"
       /\ LET f == resp.arg \o <<".mdx">>
          IN  IF f \in DOMAIN dir /\ dir[f].kind = "ok"
              THEN /\ resp.outcome = "value"
                   /\ Len(resp.value) = 1
                   /\ resp.value[1].slug = resp.arg
                   /\ resp.value[1].title = dir[f].title
                   /\ resp.value[1].content = dir[f].content
              ELSE resp.outcome = "null" /\ resp.value = <<>>

\* C2 witness: a lookup of a slug without document, in a directory that has
\* other documents, answered null
C2_Witness ==
    /\ resp.op = "getBlogPost"
    /\ (resp.arg \o <<".mdx">>) \notin DOMAIN dir
    /\ \E f \in DOMAIN dir : dir[f].kind = "ok"
    /\ resp.outcome = "null"

\* C3 (as claimed): on a non-empty content set of well-formed documents,
\* getBlogPostsBySearch("") and getBlogPostsBySearch(undefined) return the
\* empty sequence.
C3_EmptyQueryReturnsEmpty ==
    (/\ resp.op = "getBlogPostsBySearch"
     /\ resp.arg \in {None, Some(<<>>)}
     /\ DOMAIN dir # {} /\ AllDocsOk(dir))
    => (resp.outcome = "value" /\ resp.value = <<>>)

\* C4: for a non-empty query q, getBlogPostsBySearch(q) returns exactly the
\* posts of the listing whose title or description contains q ignoring case,
\* in the order of the listing; and a post whose lower-cased title is q is
\* among them.
C4_SearchIsCaseInsensitiveSubset ==
    (/\ resp.op = "getBlogPostsBySearch"
     /\ resp.arg # None /\ resp.arg # Some(<<>>)
     /\ resp.posts # None)
    => LET q == resp.arg[1]
           Matches(post) == \/ ContainsIgnoringCase(post.title, q)
                            \/ ContainsIgnoringCase(post.description, q)
       IN  /\ resp.outcome = "value"
           /\ IsSelectionOf(resp.value, resp.posts[1], Matches)
           /\ \A i \in 1..Len(resp.posts[1]) :
                q = toLowerCase(resp.posts[1][i].title)
                => resp.posts[1][i] \in Range(resp.value)

\* C4 witness: a search that keeps some posts and drops others, one of the
\* kept posts matching only by its description and only when case is ignored
C4_Witness ==
    /\ resp.op = "getBlogPostsBySearch" /\ resp.outcome = "value"
    /\ resp.arg # None /\ resp.arg # Some(<<>>) /\ resp.posts # None
    /\ resp.value # <<>>
    /\ Len(resp.value) < Len(resp.posts[1])
    /\ \E i \in 1..Len(resp.value) :
         /\ ~ContainsIgnoringCase(resp.value[i].title, resp.arg[1])
         /\ ~includes(resp.value[i].description, resp.arg[1])
    /\ \E i \in 1..Len(resp.value) : resp.arg[1] = toLowerCase(resp.value[i].title)

\* C5: GET /api/posts answers the empty list when the keywords parameter is
\* missing or empty (also when the catalog is not empty, and without reading
\* it); for a non-empty keyword it answers what getBlogPostsBySearch answers
\* on that keyword, throwing exactly when the listing throws.
C5_EndpointEmptyQueryEmptyList ==
    resp.op = "GET"
    => IF resp.arg = None \/ resp.arg = Some(<<>>)
       THEN resp.outcome = "value" /\ resp.value = <<>> /\ resp.posts = None
       ELSE \/ /\ resp.outcome = "throw"
               /\ Throw \in getBlogPosts(dir)
            \/ /\ resp.posts # None
               /\ Value(resp.posts[1]) \in getBlogPosts(dir)
               /\ resp.outcome = getBlogPostsBySearch(resp.posts[1], resp.arg).outcome
               /\ resp.value = getBlogPostsBySearch(resp.posts[1], resp.arg).value

\* C5 witness: an empty or missing keywords parameter answered with the empty
\* list although the catalog has posts
C5_Witness ==
    /\ resp.op = "GET"
    /\ resp.arg \in {None, Some(<<>>)}
    /\ DOMAIN dir # {} /\ AllDocsOk(dir)
    /\ resp.outcome = "value" /\ resp.value = <<>>

\* C6 (as claimed): with exactly one malformed or unreadable document among
\* N >= 1 valid ones, getBlogPosts() does not throw and returns the N valid
\* posts.
C6_MalformedDocumentIsSkipped ==
    (/\ resp.op = "getBlogPosts"
     /\ Cardinality({f \in DOMAIN dir : dir[f].kind # "ok"}) = 1
     /\ Cardinality({f \in DOMAIN dir : dir[f].kind = "ok"}) >= 1)
    => /\ resp.outcome = "value"
       /\ Len(resp.value) = Cardinality({f \in DOMAIN dir : dir[f].kind = "ok"})
       /\ \A f \in DOMAIN dir :
            dir[f].kind = "ok"
            => \E i \in 1..Len(resp.value) : resp.value[i] = BlogPost(replaceMdx(f), dir[f])

\* C7: getBlogPostsByTag(t) returns exactly the posts of the listing that
\* have a tag equal to t (case-sensitive), in the order of the listing, and
\* the tag page filters the listing to the same posts.
C7_ByTagExactMatch ==
    (resp.op \in {"getBlogPostsByTag", "TagPage"} /\ resp.posts # None)
    => LET HasTag(post) == resp.arg \in Range(post.tags)
       IN  /\ resp.outcome = "value"
           /\ IsSelectionOf(resp.value, resp.posts[1], HasTag)
           /\ resp.value = getBlogPostsByTag(resp.posts[1], resp.arg)
           /\ resp.value = tagPageFilter(resp.posts[1], resp.arg)

\* C7 witness: a tag query that keeps a post and drops another whose tag
\* differs from the queried one by case only
C7_Witness ==
    /\ resp.op = "getBlogPostsByTag" /\ resp.outcome = "value"
    /\ resp.arg = ".net"
    /\ resp.value # <<>>
    /\ \E i \in 1..Len(resp.posts[1]) :
         /\ ".NET" \in Range(resp.posts[1][i].tags)
         /\ resp.posts[1][i] \notin Range(resp.value)

\* C8: getBlogPostsByAuthor(a) returns exactly the posts of the listing
\* whose author equals a, in the order of the listing.
C8_ByAuthorExactMatch ==
    (resp.op = "getBlogPostsByAuthor" /\ resp.posts # None)
    => LET ByAuthor(post) == post.author = resp.arg
       IN  /\ resp.outcome = "value"
           /\ IsSelectionOf(resp.value, resp.posts[1], ByAuthor)

\* C8 witness: an author query that keeps some posts and drops others
C8_Witness ==
    /\ resp.op = "getBlogPostsByAuthor" /\ resp.outcome = "value"
    /\ Len(resp.value) >= 2
    /\ Len(resp.value) < Len(resp.posts[1])

\* C9: the tags of the tags page are the union of the tags of all listed
\* posts, each once: every tag of every post occurs, nothing else occurs,
\* and no tag occurs twice.
C9_DistinctTagsIsUnion ==
    (resp.op = "TagsPage" /\ resp.outcome = "value")
    => /\ Range(resp.tags) = UNION {Range(post.tags) : post \in Range(resp.posts[1])}
       /\ \A i, j \in 1..Len(resp.tags) : resp.tags[i] = resp.tags[j] => i = j

\* C9 witness: a tags page over posts that share a tag and have other tags
C9_Witness ==
    /\ resp.op = "TagsPage" /\ resp.outcome = "value"
    /\ Len(resp.tags) >= 2
    /\ \E i, j \in 1..Len(resp.posts[1]) :
         i # j /\ Range(resp.posts[1][i].tags) \cap Range(resp.posts[1][j].tags) # {}

\* C10: the blog page computes totalPages = ceil(count / 6), the least t
\* with 6 * t >= count, and for a page number p in 1..totalPages it shows
\* exactly the items at the 0-based indices (p-1)*6 .. min(count, p*6) - 1;
\* for count = 0 and p = 1 the slice is empty and totalPages = 0; it does
\* not throw when the listing is returned.
C10_PageSliceAndTotalPages ==
    (resp.op = "BlogPage" /\ resp.posts # None)
    => LET posts == resp.posts[1]
           count == Len(posts)
           p     == resp.pageNumber
       IN  /\ resp.outcome = "value"
           /\ resp.totalPages >= 0
           /\ 6 * resp.totalPages >= count
           /\ 6 * (resp.totalPages - 1) < count
           /\ (~p.nan /\ p.val \in 1..resp.totalPages)
              => /\ Len(resp.value) = Min(count, p.val * 6) - (p.val - 1) * 6
                 /\ \A k \in 1..Len(resp.value) :
                      resp.value[k] = posts[(p.val - 1) * 6 + k]
           /\ (count = 0 /\ ~p.nan /\ p.val = 1)
              => (resp.value = <<>> /\ resp.totalPages = 0)

\* C10 witness: page 2 of 13 posts shows the items 6..11 and totalPages is 3
C10_Witness ==
    /\ resp.op = "BlogPage" /\ resp.outcome = "value"
    /\ Len(resp.posts[1]) = 13
    /\ resp.pageNumber = Num(2)
    /\ resp.totalPages = 3
    /\ Len(resp.value) = 6
    /\ resp.value[1] = resp.posts[1][7]
    /\ resp.value[6] = resp.posts[1][12]

RECURSIVE HeadingMarkers(_)
HeadingMarkers(tree) ==
    IF tree = <<>> THEN <<>>
    ELSE LET b == Head(tree)
             IsHeading(n) == n.type = "heading"
         IN  (IF b.type = "heading" THEN <<b>>
              ELSE IF b.type = "blockquote" THEN SelectSeq(b.children, IsHeading)
              ELSE <<>>)
             \o HeadingMarkers(Tail(tree))

\* the literal text of all spans of a node, nested ones included, in order
RECURSIVE LiteralText(_)
LiteralText(nodes) ==
    IF nodes = <<>> THEN <<>>
    ELSE Head(nodes).value \o LiteralText(Head(nodes).children)
         \o LiteralText(Tail(nodes))

\* C12: extractHeadings returns one record per heading marker of the body,
\* in document order, its level the marker's depth (1 to 6); the headings
\* A, B, C of depths 1, 2, 3 give the texts A, B, C and the ids a, b, c.
C12_OneHeadingPerMarkerInOrder ==
    resp.op = "extractHeadings"
    => LET markers == HeadingMarkers(resp.arg)
       IN  /\ Len(resp.headings) = Len(markers)
           /\ \A i \in 1..Len(resp.headings) :
                /\ resp.headings[i].level = markers[i].depth
                /\ resp.headings[i].level \in 1..6
                /\ (Len(markers[i].children) = 1 /\ markers[i].children[1].type = "text")
                   => resp.headings[i].text = markers[i].children[1].value
                /\ resp.headings[i].text = <<"A">> => resp.headings[i].id = <<"a">>
                /\ resp.headings[i].text = <<"B">> => resp.headings[i].id = <<"b">>
                /\ resp.headings[i].text = <<"C">> => resp.headings[i].id = <<"c">>

\* C12 witness: the body "# A\n## B\n### C"
C12_Witness ==
    /\ resp.op = "extractHeadings"
    /\ resp.arg = <<HeadingA, HeadingB, HeadingC>>
    /\ resp.headings = <<[id |-> <<"a">>, text |-> <<"A">>, level |-> 1],
                         [id |-> <<"b">>, text |-> <<"B">>, level |-> 2],
                         [id |-> <<"c">>, text |-> <<"C">>, level |-> 3]>>

\* C13: the id of a heading is a function of its text: the word characters
\* of the text lower-cased, in order, with one hyphen in place of every
\* maximal run of non-word characters, leading and trailing ones included;
\* "N+1 Problem!" gives "n-1-problem-" and equal texts give equal ids.
C13_HeadingIdFromText ==
    resp.op = "extractHeadings"
    => \A i \in 1..Len(resp.headings) :
         LET t == resp.headings[i].text
             d == resp.headings[i].id
             NotHyphen(c) == c # "-"
             RunStarts == {k \in 1..Len(t) :
                             ~IsWordChar(t[k]) /\ (k = 1 \/ IsWordChar(t[k - 1]))}
         IN  /\ t = <<"N","+","1"," ","P","r","o","b","l","e","m","!">> => d = <<"n","-","1","-","p","r","o","b","l","e","m","-">>
             /\ \A k \in 1..Len(d) : d[k] = "-" \/ (IsWordChar(d[k]) /\ d[k] \notin Range(UpperChars))
             /\ \A k \in 1..(Len(d) - 1) : ~(d[k] = "-" /\ d[k + 1] = "-")
             /\ SelectSeq(d, NotHyphen) = toLowerCase(SelectSeq(t, IsWordChar))
             /\ Cardinality({k \in 1..Len(d) : d[k] = "-"}) = Cardinality(RunStarts)
             /\ t # <<>> => /\ (d[1] = "-") <=> ~IsWordChar(t[1])
                            /\ (d[Len(d)] = "-") <=> ~IsWordChar(t[Len(t)])
             /\ \A j \in 1..Len(resp.headings) :
                  resp.headings[j].text = t => resp.headings[j].id = d

\* C13 witness: the heading "N+1 Problem!" with the id "n-1-problem-", next
\* to a heading whose text has a run of two non-word characters
C13_Witness ==
    /\ resp.op = "extractHeadings"
    /\ \E i \in 1..Len(resp.headings) :
         /\ resp.headings[i].text = <<"N","+","1"," ","P","r","o","b","l","e","m","!">>
         /\ resp.headings[i].id = <<"n","-","1","-","p","r","o","b","l","e","m","-">>
    /\ \E i \in 1..Len(resp.headings) :
         resp.headings[i].id = <<"u","s","e","-","a","n","d","-","i","n","c","l","u","d","e","-">>

\* C14 (as claimed): the text of a heading is the concatenation, in order,
\* of the literal text of all its spans, the text inside bold and italic
\* spans included.
C14_HeadingTextIncludesNestedSpans ==
    resp.op = "extractHeadings"
    => \A i \in 1..Len(resp.headings) :
         i <= Len(HeadingMarkers(resp.arg))
         => resp.headings[i].text = LiteralText(HeadingMarkers(resp.arg)[i].children)

C16_MalformedLookupLogsAndReturnsNull ==
    (/\ resp.op = "getBlogPost"
     /\ (resp.arg \o <<".mdx">>) \in DOMAIN dir
     /\ dir[resp.arg \o <<".mdx">>].kind \in {"badFrontMatter", "unreadable"})
    => (resp.outcome = "null" /\ resp.logged /\ resp.value = <<>>)

\* C16 witness: a lookup of a slug whose document has unparseable front matter
C16_Witness ==
    /\ resp.op = "getBlogPost"
    /\ (resp.arg \o <<".mdx">>) \in DOMAIN dir
    /\ dir[resp.arg \o <<".mdx">>].kind = "badFrontMatter"
    /\ resp.outcome = "null" /\ resp.logged

\* C17 (as claimed): the file names of a directory being pairwise distinct,
\* no two posts returned by getBlogPosts() have the same slug.
C17_SlugsAreUnique ==
    (resp.op = "getBlogPosts" /\ resp.outcome = "value")
    => \A i, j \in 1..Len(resp.value) :
         resp.value[i].slug = resp.value[j].slug => i = j

\* C18: when getBlogPosts() returns, its result has exactly one post per
\* directory entry: as many posts as entries, and each entry's post as many
\* times as there are entries that yield it.
C18_OnePostPerEntry ==
    (resp.op = "getBlogPosts" /\ resp.outcome = "value")
    => LET Entry(f) == <<replaceMdx(f), dir[f].title, dir[f].content>>
           Post(i)  == <<resp.value[i].slug, resp.value[i].title, resp.value[i].content>>
       IN  /\ Len(resp.value) = Cardinality(DOMAIN dir)
           /\ \A f \in DOMAIN dir :
                Cardinality({i \in 1..Len(resp.value) : Post(i) = Entry(f)})
                = Cardinality({g \in DOMAIN dir : Entry(g) = Entry(f)})

\* C18 witness: a listing of three entries, two of which hold the same document
C18_Witness ==
    /\ resp.op = "getBlogPosts" /\ resp.outcome = "value"
    /\ Len(resp.value) = 3
    /\ \E f, g \in DOMAIN dir : f # g /\ dir[f] = dir[g]

\* C19: in every post of getBlogPosts() and in the post of getBlogPost(),
\* tags is a sequence of the document's tags; for a document without a tags
\* key it is the empty sequence, never undefined.
C19_TagsDefaultToEmpty ==
    (resp.op \in {"getBlogPosts", "getBlogPost"} /\ resp.outcome = "value")
    => \A i \in 1..Len(resp.value) :
         /\ resp.value[i].tags # <<"undefined">>
         /\ \A f \in DOMAIN dir :
              (/\ resp.value[i].title = dir[f].title
               /\ IF resp.op = "getBlogPosts"
                  THEN resp.value[i].slug = replaceMdx(f)
                  ELSE f = resp.value[i].slug \o <<".mdx">>)
              => IF dir[f].tags = None
                 THEN resp.value[i].tags = <<>>
                 ELSE resp.value[i].tags = dir[f].tags[1]

\* C19 witness: a listing that holds a post of a document without a tags key
C19_Witness ==
    /\ resp.op = "getBlogPosts" /\ resp.outcome = "value"
    /\ Len(resp.value) >= 2
    /\ \E f \in DOMAIN dir : dir[f].kind = "ok" /\ dir[f].tags = None
    /\ \E i \in 1..Len(resp.value) : resp.value[i].tags = <<>>

\* C20: when getBlogPost(slug) yields null (no document, or one that cannot
\* be read or parsed), the post page ends in notFound() without having read
\* a field of the post, and generateMetadata returns the 'Post Not Found'
\* metadata with robots noindex and does not throw.
C20_MissingPostRendersNotFound ==
    (/\ resp.op \in {"BlogPostPage", "generateMetadata"}
     /\ \/ (resp.arg \o <<".mdx">>) \notin DOMAIN dir
        \/ dir[resp.arg \o <<".mdx">>].kind # "ok")
    => IF resp.op = "BlogPostPage"
       THEN resp.outcome = "notFound" /\ ~resp.readsPost /\ resp.value = <<>>
       ELSE /\ resp.outcome = "value"
            /\ resp.metadata.title = NotFoundTitle
            /\ resp.metadata.robots = "noindex, nofollow"

\* C20 witness: the post page of a slug without document, in a directory
\* with other documents, ended in notFound()
C20_Witness ==
    /\ resp.op = "BlogPostPage"
    /\ (resp.arg \o <<".mdx">>) \notin DOMAIN dir
    /\ \E f \in DOMAIN dir : dir[f].kind = "ok"
    /\ resp.outcome = "notFound"

\* C21: two headings of one document that are worded identically get the
\* same id: nothing is appended to tell them apart, so the ids of a
\* document's headings need not be pairwise distinct.
C21_IdenticalHeadingsShareId ==
    resp.op = "extractHeadings"
    => LET markers == HeadingMarkers(resp.arg)
       IN  \A i, j \in 1..Len(markers) :
             (i < j /\ markers[i].children = markers[j].children)
             => /\ j <= Len(resp.headings)
                /\ resp.headings[i].id = resp.headings[j].id
                /\ resp.headings[i].text = resp.headings[j].text

\* C21 witness: a document whose first and third heading are both "# A",
\* with a different heading between them, both given the id "a"
C21_Witness ==
    /\ resp.op = "extractHeadings"
    /\ resp.arg = <<HeadingA, HeadingB, HeadingA>>
    /\ Len(resp.headings) = 3
    /\ resp.headings[1].id = <<"a">>
    /\ resp.headings[3].id = <<"a">>
    /\ resp.headings[2].id # <<"a">>

\* C22: getBlogPosts() calls in flight over an unchanged directory are
\* independent: two calls never hold the same array; a suspended call finds
\* its array as it built it, and a returned array stays as it was returned;
\* each result is one that a single undisturbed call can produce; and two
\* calls that have returned, however they interleaved, returned the same
\* outcome and equal lists.
C22_ConcurrentCallsAreIndependent ==
    \A c1, c2 \in Calls :
        /\ (c1 # c2 /\ calls[c1].posts # NoRef /\ calls[c2].posts # NoRef)
           => calls[c1].posts # calls[c2].posts
        /\ (calls[c1].pc = "awaiting" /\ calls[c1].settled = "fulfilled")
           => /\ calls[c1].posts \in DOMAIN heap
              /\ heap[calls[c1].posts] = mappedPosts(dir)
        /\ calls[c1].pc = "returned"
           => IF calls[c1].outcome = "value"
              THEN /\ calls[c1].posts \in DOMAIN heap
                   /\ heap[calls[c1].posts] = calls[c1].returned
                   /\ Value(calls[c1].returned) \in getBlogPosts(dir)
              ELSE Throw \in getBlogPosts(dir)
        /\ (calls[c1].pc = "returned" /\ calls[c2].pc = "returned")
           => /\ calls[c1].outcome = calls[c2].outcome
              /\ calls[c1].returned = calls[c2].returned

\* C22 witness: two calls that were suspended at the same time have both
\* returned, each its own array, the two holding the same three posts in
\* an order that is not the directory order
C22_Witness ==
    /\ calls[1].pc = "returned" /\ calls[2].pc = "returned"
    /\ calls[1].overlapped \/ calls[2].overlapped
    /\ calls[1].outcome = "value" /\ calls[2].outcome = "value"
    /\ calls[1].posts # calls[2].posts
    /\ Len(heap[calls[1].posts]) = 3
    /\ heap[calls[1].posts] = heap[calls[2].posts]
    /\ heap[calls[1].posts] # mappedPosts(dir)

\* C23 (as claimed): for every integer page number outside 1..totalPages
\* (zero, a negative number, or a number above totalPages), the slice of
\* posts that the blog page shows is empty.
C23_OutOfRangePageIsEmpty ==
    (/\ resp.op = "BlogPage" /\ resp.outcome = "value"
     /\ ~resp.pageNumber.nan
     /\ resp.pageNumber.val \notin 1..resp.totalPages)
    => resp.value = <<>>

\* the pages of parameters  links  cut out of  posts, one after the other
RECURSIVE PagesInOrder(_, _)
PagesInOrder(posts, links) ==
    IF links = <<>> THEN <<>>
    ELSE PagesInOrder(posts, SubSeq(links, 1, Len(links) - 1))
         \o paginatedPostsOf(posts, pageNumberOf(Some(links[Len(links)])))

\* C24: the blog page's Pagination renders exactly the links 1, 2, ...,
\* totalPages; and the slices that the blog page cuts out of the listing
\* for these page parameters, put one after the other, are the listing:
\* every post in its place, none left out, none on two pages.
C24_PagesPartitionListing ==
    (resp.op = "BlogPage" /\ resp.outcome = "value")
    => /\ Len(resp.links) = resp.totalPages
       /\ \A k \in 1..Len(resp.links) :
            /\ Number(resp.links[k]) = Num(k)
            /\ paginatedPostsOf(resp.posts[1], pageNumberOf(Some(resp.links[k]))) # <<>>
       /\ PagesInOrder(resp.posts[1], resp.links) = resp.posts[1]
       /\ resp.pageNumber \in {Num(k) : k \in 1..resp.totalPages}
          => \E k \in 1..Len(resp.links) :
               /\ pageNumberOf(Some(resp.links[k])) = resp.pageNumber
               /\ resp.value =
                    paginatedPostsOf(resp.posts[1], pageNumberOf(Some(resp.links[k])))

\* C24 witness: the second of the three pages of a listing of 13 posts,
\* with the links 1, 2, 3
C24_Witness ==
    /\ resp.op = "BlogPage" /\ resp.outcome = "value"
    /\ Len(resp.posts[1]) = 13
    /\ resp.links = << <<"1">>, <<"2">>, <<"3">> >>
    /\ resp.pageNumber = Num(2)
    /\ resp.value = SubSeq(resp.posts[1], 7, 12)

\* C25 (as claimed): for every post of the listing, and so for every slug
\* that generateStaticParams returns, getBlogPost of the post's slug returns
\* a post, and that post has the slug, title, date, description, content,
\* tags, author, readingTime and image of the listed post.
C25_ListingAndLookupAgree ==
    (resp.op = "generateStaticParams" /\ resp.outcome = "value")
    => /\ Len(resp.params) = Len(resp.value)
       /\ \A i \in 1..Len(resp.value) :
            /\ resp.params[i] = resp.value[i].slug
            /\ resp.lookups[i].outcome = "value"
            /\ resp.lookups[i].value = <<resp.value[i]>>

\* the lists that the endpoint answers to the request the modal sends for
\* the query q on the directory d
AnswersTo(d, q) ==
    {r.value : r \in {x \in endpointResponses(d, Some(urlKeywords(q))) :
                         x.outcome = "value"}}

\* C26 (as claimed): whenever the search modal is not loading, and no
\* request has failed since the last edit, the results it shows are the
\* answer to its current query (the empty list for a blank query): the
\* answer to an earlier query is never left shown for a later one.
C26_ResultsAreForCurrentQuery ==
    (~modal.isLoading /\ ~modal.failed)
    => IF isBlankQuery(modal.query)
       THEN modal.results = <<>>
       ELSE modal.results \in AnswersTo(dir, modal.query)

\* C27 (as claimed): whenever the query of the search modal is empty or
\* blank, also after onCloseModal, the results are empty, and no timer is
\* pending and no request was sent for it.
C27_BlankQueryShowsNothing ==
    isBlankQuery(modal.query)
    => /\ modal.results = <<>>
       /\ \A t \in modal.timers : ~isBlankQuery(t.query)
       /\ \A f \in modal.fetches : ~isBlankQuery(f.query)
       /\ modal.sentSinceEdit = 0

\* the modal has come to rest: nothing pending, nothing in flight
AtRest ==
    /\ modal.timers = {}
    /\ modal.fetches = {}
    /\ ~modal.isLoading

\* at most one timer is pending, the timer of the current query; every
\* request was sent for the query that was current and had been unchanged
\* for debounceMs, at most one since the last edit, none for a blank query
Debounced ==
    /\ Cardinality(modal.timers) <= 1
    /\ \A t \in modal.timers :
         /\ t.query = modal.query /\ t.effect = modal.edits
         /\ t.remaining = debounceMs - modal.unchangedFor
         /\ modal.sentSinceEdit = 0
    /\ \A f \in modal.fetches :
         /\ f.query = f.queryAtSend
         /\ f.unchangedAtSend >= debounceMs
         /\ ~isBlankQuery(f.query)
    /\ modal.sentSinceEdit <= 1
    /\ modal.sent + modal.cancelled <= modal.edits
    /\ isBlankQuery(modal.query) => modal.sentSinceEdit = 0

\* the modal is at rest, with exactly one request sent for a non-blank query
Settled ==
    /\ AtRest
    /\ isBlankQuery(modal.query) \/ modal.sentSinceEdit = 1

\* C28: the search modal debounces its requests.  At any time at most one
\* timer is pending, and it is the timer of the current query; a request is
\* sent only for the query that is current and has been unchanged for
\* debounceMs, at most one since the last edit, none for a blank query.  And
\* once the edits have ended, the modal comes to rest for good: not loading,
\* and, the query being non-blank, with exactly one request sent for it.
C28_RequestsAreDebounced == []Debounced /\ <>[]Settled

\* C28 witness: after three edits of non-blank queries, two of them
\* replaced within the delay, one request has been sent, for the last
\* query, and its answer is shown
C28_Witness ==
    /\ modal.edits = 3
    /\ modal.cancelled = 2
    /\ modal.sent = 1 /\ modal.sentSinceEdit = 1
    /\ AtRest
    /\ ~isBlankQuery(modal.query)
    /\ modal.results # <<>>
    /\ modal.results \in AnswersTo(dir, modal.query)

\* C29 (as claimed): the endpoint treats as empty every keyword that the
\* search modal treats as empty: on a directory of well-formed documents,
\* GET /api/posts with a keywords parameter that is blank after trimming
\* answers the empty list, not the posts whose title or description holds
\* white space.
C29_EndpointTreatsBlankAsEmpty ==
    (/\ resp.op = "GET"
     /\ resp.arg # None /\ isBlankQuery(resp.arg[1])
     /\ AllDocsOk(dir))
    => (resp.outcome = "value" /\ resp.value = <<>>)

====
